---- MODULE Spec2Model ----
(***************************************************************************)
(* Model of the container capability traits of src/src/traits/vec.rs and   *)
(* src/src/traits/string.rs: Collection / CollectionMut / CollectionFamily *)
(* over Vec<T> and heapless::Vec<T, N>, and StringRO / StringRW over       *)
(* std::string::String and heapless::String<N>.                            *)
(*                                                                         *)
(* A growable container is the sequence of its elements.  A bounded        *)
(* container is heapless' representation: a buffer of N slots and a        *)
(* length; slots at and beyond the length hold no value (Uninit).  Strings *)
(* are containers of UTF-8 bytes.  A call's outcome is "Ok", "Err" or      *)
(* "Panic"; a panic ends the run.                                          *)
(***************************************************************************)
EXTENDS Integers, Sequences, FiniteSets, TLC

\* ---------------------------------------------------------------- bounds
MaxN == 3
MaxLen == 3

\* Element values pushed into vectors (u8 in the tests).
Elem == {1, 2}
\* Characters pushed into strings: '"' (one byte, escaped by JSON) and U+00E9
\* (two bytes in UTF-8).
Chars == {34, 233}

Uninit == 0 - 1

\* All sequences over S of length at most n.
RECURSIVE SeqsUpTo(_, _)
SeqsUpTo(S, n) ==
    IF n = 0 THEN {<<>>}
    ELSE LET shorter == SeqsUpTo(S, n - 1)
         IN  shorter \cup {Append(s, x) : s \in {t \in shorter : Len(t) = n - 1}, x \in S}

\* --------------------------------------------------------- vec.rs: Vec<T>
Vec_new == <<>>

Vec_iterate(v) == v

Vec_len(v) == Len(v)

Vec_is_empty(v) == Len(v) = 0

Vec_push(v, value) == [c |-> Append(v, value), res |-> "Ok", ret |-> <<>>]

Vec_insert(v, index, element) ==
    IF index > Len(v)
    THEN [c |-> v, res |-> "Panic", ret |-> <<>>]
    ELSE [c |-> SubSeq(v, 1, index) \o <<element>> \o SubSeq(v, index + 1, Len(v)),
          res |-> "Ok", ret |-> <<>>]

Vec_remove(v, index) ==
    IF index >= Len(v)
    THEN [c |-> v, res |-> "Panic", ret |-> <<>>]
    ELSE [c |-> SubSeq(v, 1, index) \o SubSeq(v, index + 2, Len(v)),
          res |-> "Ok", ret |-> <<v[index + 1]>>]

Vec_clear(v) == [c |-> <<>>, res |-> "Ok", ret |-> <<>>]

\* ----------------------------------------------- vec.rs: heapless::Vec<T, N>
HVec_new(N) == [len |-> 0, buffer |-> [i \in 1..N |-> Uninit]]

HVec_capacity(h) == Len(h.buffer)

\* Deref / AsRef<[T]>: the initialised prefix of the buffer.
HVec_as_slice(h) == SubSeq(h.buffer, 1, h.len)

HVec_iterate(h) == HVec_as_slice(h)

HVec_len(h) == HVec_capacity(h)

HVec_is_empty(h) == h.len = 0

\* Mutant of HVec_push: a push on a full vector is dropped and reported Ok.
HVec_push_silent(h, value) ==
    IF h.len < HVec_capacity(h)
    THEN [c |-> [len |-> h.len + 1, buffer |-> [h.buffer EXCEPT ![h.len + 1] = value]],
          res |-> "Ok", ret |-> <<>>]
    ELSE [c |-> h, res |-> "Ok", ret |-> <<>>]

HVec_push(h, value) ==
    IF h.len < HVec_capacity(h)
    THEN [c |-> [len |-> h.len + 1, buffer |-> [h.buffer EXCEPT ![h.len + 1] = value]],
          res |-> "Ok", ret |-> <<>>]
    ELSE [c |-> h, res |-> "Err", ret |-> <<value>>]

\* Mutant of HVec_insert: the element is inserted when there is room.
HVec_insert_shift(h, index, element) ==
    IF index > h.len \/ h.len >= HVec_capacity(h)
    THEN [c |-> h, res |-> "Panic", ret |-> <<>>]
    ELSE [c |-> [len |-> h.len + 1,
                 buffer |-> [i \in 1..HVec_capacity(h) |->
                               IF i <= index THEN h.buffer[i]
                               ELSE IF i = index + 1 THEN element
                               ELSE h.buffer[i - 1]]],
          res |-> "Ok", ret |-> <<>>]

HVec_insert(h, index, element) == [c |-> h, res |-> "Panic", ret |-> <<>>]

HVec_remove(h, index) == [c |-> h, res |-> "Panic", ret |-> <<>>]

HVec_clear(h) ==
    [c |-> [len |-> 0, buffer |-> [i \in 1..HVec_capacity(h) |-> Uninit]],
     res |-> "Ok", ret |-> <<>>]

\* Mutant of HVec_extend_from_slice: only a full vector is an error, and what
\* fits of the slice is written.
HVec_extend_what_fits(h, other) ==
    IF h.len >= HVec_capacity(h) /\ Len(other) > 0
    THEN [c |-> h, res |-> "Err", ret |-> <<>>]
    ELSE LET n == IF h.len + Len(other) > HVec_capacity(h)
                  THEN HVec_capacity(h) - h.len ELSE Len(other)
         IN  [c |-> [len |-> h.len + n,
                     buffer |-> [i \in 1..HVec_capacity(h) |->
                                   IF i > h.len /\ i <= h.len + n
                                   THEN other[i - h.len] ELSE h.buffer[i]]],
              res |-> "Ok", ret |-> <<>>]

\* heapless::Vec::extend_from_slice, behind from_slice and String::push_str:
\* nothing is written unless the whole slice fits.
HVec_extend_from_slice(h, other) ==
    IF h.len + Len(other) > HVec_capacity(h)
    THEN [c |-> h, res |-> "Err", ret |-> <<>>]
    ELSE [c |-> [len |-> h.len + Len(other),
                 buffer |-> [i \in 1..HVec_capacity(h) |->
                               IF i > h.len /\ i <= h.len + Len(other)
                               THEN other[i - h.len] ELSE h.buffer[i]]],
          res |-> "Ok", ret |-> <<>>]

\* HV32::from_slice(..).unwrap(): the unwrap panics when the slice is too long.
HVec_from_slice(N, data) ==
    LET r == HVec_extend_from_slice(HVec_new(N), data)
    IN  IF r.res = "Ok" THEN r ELSE [c |-> HVec_new(N), res |-> "Panic", ret |-> <<>>]

\* ------------------------------------------------------- vec.rs: impl for ()
Unit_iterate == <<>>

Unit_len == [res |-> "Panic", ret |-> <<>>]

Unit_is_empty == [res |-> "Panic", ret |-> <<>>]

\* ------------------------------------------------- string.rs: UTF-8 strings
\* char::len_utf8
Utf8Len(ch) ==
    IF ch < 128 THEN 1 ELSE IF ch < 2048 THEN 2 ELSE IF ch < 65536 THEN 3 ELSE 4

\* char::encode_utf8
Utf8(ch) ==
    IF ch < 128 THEN <<ch>>
    ELSE IF ch < 2048 THEN <<192 + (ch \div 64), 128 + (ch % 64)>>
    ELSE IF ch < 65536
         THEN <<224 + (ch \div 4096), 128 + ((ch \div 64) % 64), 128 + (ch % 64)>>
         ELSE <<240 + (ch \div 262144), 128 + ((ch \div 4096) % 64),
                128 + ((ch \div 64) % 64), 128 + (ch % 64)>>

\* The UTF-8 text of a sequence of characters.
RECURSIVE Utf8Str(_)
Utf8Str(chars) ==
    IF chars = <<>> THEN <<>> ELSE Utf8(Head(chars)) \o Utf8Str(Tail(chars))

\* str::is_char_boundary: the start, the end, or a byte that is not a
\* continuation byte (0x80..0xBF).
IsCharBoundary(bytes, index) ==
    \/ index = 0
    \/ index = Len(bytes)
    \/ /\ index < Len(bytes)
       /\ (bytes[index + 1] < 128 \/ bytes[index + 1] >= 192)

\* ------------------------------------------ string.rs: std::string::String
Str_as_str(s) == s

Str_push(s, ch) == [c |-> s \o Utf8(ch), res |-> "Ok", ret |-> <<>>]

Str_push_str(s, string) == [c |-> s \o string, res |-> "Ok", ret |-> <<>>]

Str_as_mut_str(s) == s

Str_clear(s) == [c |-> <<>>, res |-> "Ok", ret |-> <<>>]

\* String::truncate asserts that new_len lies on a char boundary.
Str_truncate(s, new_len) ==
    IF new_len <= Len(s)
    THEN IF IsCharBoundary(s, new_len)
         THEN [c |-> SubSeq(s, 1, new_len), res |-> "Ok", ret |-> <<>>]
         ELSE [c |-> s, res |-> "Panic", ret |-> <<>>]
    ELSE [c |-> s, res |-> "Ok", ret |-> <<>>]

\* ------------------------------------------ string.rs: heapless::String<N>
\* A heapless::String<N> wraps a heapless::Vec<u8, N>.
HStr_as_str(h) == HVec_as_slice(h)

HStr_capacity(h) == HVec_capacity(h)

\* Mutant of HStr_push_str: the bytes that fit are written before the error.
HStr_push_str_partial(h, string) ==
    LET r == HVec_extend_from_slice(h, string)
        n == HVec_capacity(h) - h.len
    IN  IF r.res = "Ok" THEN r
        ELSE [HVec_extend_from_slice(h, SubSeq(string, 1, n)) EXCEPT !.res = "Err"]

HStr_push_str(h, string) == HVec_extend_from_slice(h, string)

\* Mutant of HStr_push: every char is pushed as one byte, `c as u8`.
HStr_push_as_u8(h, ch) == [HVec_push(h, ch % 256) EXCEPT !.ret = <<>>]

\* String::push: a one-byte char goes through Vec::push (its error mapped to
\* ()), a longer one through push_str of its encoding.
HStr_push(h, ch) ==
    IF Utf8Len(ch) = 1
    THEN [HVec_push(h, ch) EXCEPT !.ret = <<>>]
    ELSE HStr_push_str(h, Utf8(ch))

HStr_as_mut_str(h) == HVec_as_slice(h)

HStr_clear(h) == HVec_clear(h)

\* Mutant of HStr_truncate: no char-boundary assertion.
HStr_truncate_unchecked(h, new_len) ==
    IF new_len <= h.len
    THEN [c |-> [len |-> new_len,
                 buffer |-> [i \in 1..HVec_capacity(h) |->
                               IF i <= new_len THEN h.buffer[i] ELSE Uninit]],
          res |-> "Ok", ret |-> <<>>]
    ELSE [c |-> h, res |-> "Ok", ret |-> <<>>]

HStr_truncate(h, new_len) ==
    IF new_len <= h.len
    THEN IF IsCharBoundary(HStr_as_str(h), new_len)
         THEN [c |-> [len |-> new_len,
                      buffer |-> [i \in 1..HVec_capacity(h) |->
                                    IF i <= new_len THEN h.buffer[i] ELSE Uninit]],
               res |-> "Ok", ret |-> <<>>]
         ELSE [c |-> h, res |-> "Panic", ret |-> <<>>]
    ELSE [c |-> h, res |-> "Ok", ret |-> <<>>]

\* `let h: HS32 = "...".into()`: From<&str> unwraps the push_str.
HStr_from(N, s) ==
    LET r == HStr_push_str(HVec_new(N), s)
    IN  IF r.res = "Ok" THEN r ELSE [c |-> HVec_new(N), res |-> "Panic", ret |-> <<>>]

\* ------------------------------------------------ serde_json: to_string
\* The decimal digits of a number, as ASCII.
RECURSIVE Decimal(_)
Decimal(n) ==
    IF n < 10 THEN <<48 + n>> ELSE Decimal(n \div 10) \o <<48 + (n % 10)>>

RECURSIVE JsonElems(_)
JsonElems(elems) ==
    IF elems = <<>> THEN <<>>
    ELSE IF Len(elems) = 1 THEN Decimal(Head(elems))
    ELSE Decimal(Head(elems)) \o <<44>> \o JsonElems(Tail(elems))

\* A sequence of numbers as a JSON array: [1,2,3,5]
JsonSeq(elems) == <<91>> \o JsonElems(elems) \o <<93>>

\* The bytes of a string with '"' and '\' escaped by a backslash.
RECURSIVE JsonEscape(_)
JsonEscape(bytes) ==
    IF bytes = <<>> THEN <<>>
    ELSE (IF Head(bytes) = 34 \/ Head(bytes) = 92
          THEN <<92, Head(bytes)>> ELSE <<Head(bytes)>>) \o JsonEscape(Tail(bytes))

\* A string as a JSON string: "..."
JsonStr(bytes) == <<34>> \o JsonEscape(bytes) \o <<34>>

\* Serialize for Vec<T>: the elements of the vector, in order.
Vec_serialize(v) == JsonSeq(v)

\* Mutant of HVec_serialize: all N slots of the buffer are written.
HVec_serialize_buffer(h) == JsonSeq([i \in 1..HVec_capacity(h) |-> h.buffer[i]])

\* Serialize for heapless::Vec<T, N>: the elements of the initialised prefix.
HVec_serialize(h) == JsonSeq(HVec_as_slice(h))

\* Serialize for String: its text.
Str_serialize(s) == JsonStr(Str_as_str(s))

\* Serialize for heapless::String<N>: its text.
HStr_serialize(h) == JsonStr(HStr_as_str(h))

\* ------------------------------------------------- serde_json: from_str
\* The byte at position i, or Uninit past the end of the text.
At(text, i) == IF i >= 1 /\ i <= Len(text) THEN text[i] ELSE Uninit

IsDigit(b) == b >= 48 /\ b <= 57

\* Reads the digits from position i on: [val, next].
RECURSIVE ParseDigits(_, _, _)
ParseDigits(text, i, acc) ==
    IF IsDigit(At(text, i))
    THEN ParseDigits(text, i + 1, 10 * acc + (At(text, i) - 48))
    ELSE [val |-> acc, next |-> i]

\* Reads "n,n,...,n]" from position i on: [ok, val, next].
RECURSIVE ParseElems(_, _, _)
ParseElems(text, i, acc) ==
    IF ~IsDigit(At(text, i)) THEN [ok |-> FALSE, val |-> acc, next |-> i]
    ELSE LET d == ParseDigits(text, i, 0)
         IN  IF At(text, d.next) = 44
             THEN ParseElems(text, d.next + 1, Append(acc, d.val))
             ELSE IF At(text, d.next) = 93
                  THEN [ok |-> TRUE, val |-> Append(acc, d.val), next |-> d.next + 1]
                  ELSE [ok |-> FALSE, val |-> acc, next |-> d.next]

\* Reads a JSON array of numbers that is the whole text: [ok, val].
ParseSeq(text) ==
    IF At(text, 1) # 91 THEN [ok |-> FALSE, val |-> <<>>]
    ELSE IF At(text, 2) = 93 THEN [ok |-> Len(text) = 2, val |-> <<>>]
    ELSE LET r == ParseElems(text, 2, <<>>)
         IN  [ok |-> r.ok /\ r.next = Len(text) + 1, val |-> r.val]

\* Reads the body of a JSON string up to its closing quote: [ok, val, next].
RECURSIVE ParseChars(_, _, _)
ParseChars(text, i, acc) ==
    IF i > Len(text) THEN [ok |-> FALSE, val |-> acc, next |-> i]
    ELSE IF text[i] = 34 THEN [ok |-> TRUE, val |-> acc, next |-> i + 1]
    ELSE IF text[i] = 92
         THEN IF At(text, i + 1) = 34 \/ At(text, i + 1) = 92
              THEN ParseChars(text, i + 2, Append(acc, text[i + 1]))
              ELSE [ok |-> FALSE, val |-> acc, next |-> i]
    ELSE ParseChars(text, i + 1, Append(acc, text[i]))

\* Reads a JSON string that is the whole text: [ok, val].
ParseStr(text) ==
    IF At(text, 1) # 34 THEN [ok |-> FALSE, val |-> <<>>]
    ELSE LET r == ParseChars(text, 2, <<>>)
         IN  [ok |-> r.ok /\ r.next = Len(text) + 1, val |-> r.val]

\* Deserialize for Vec<T>: every element read is pushed.
Vec_deserialize(text) ==
    LET p == ParseSeq(text)
    IN  IF p.ok THEN [c |-> p.val, res |-> "Ok"] ELSE [c |-> <<>>, res |-> "Err"]

\* Deserialize for heapless::Vec<T, N>: every element read is pushed, and a
\* push that fails is an invalid-length error.
RECURSIVE HVec_push_all(_, _)
HVec_push_all(h, elems) ==
    IF elems = <<>> THEN [c |-> h, res |-> "Ok"]
    ELSE LET r == HVec_push(h, Head(elems))
         IN  IF r.res = "Ok" THEN HVec_push_all(r.c, Tail(elems))
             ELSE [c |-> h, res |-> "Err"]

\* Mutant of HVec_deserialize: the last slot is never filled.
HVec_deserialize_short(N, text) ==
    LET p == ParseSeq(text)
    IN  IF p.ok /\ Len(p.val) < N THEN HVec_push_all(HVec_new(N), p.val)
        ELSE [c |-> HVec_new(N), res |-> "Err"]

HVec_deserialize(N, text) ==
    LET p == ParseSeq(text)
    IN  IF p.ok THEN HVec_push_all(HVec_new(N), p.val)
        ELSE [c |-> HVec_new(N), res |-> "Err"]

\* Deserialize for String: the text read.
Str_deserialize(text) ==
    LET p == ParseStr(text)
    IN  IF p.ok THEN [c |-> p.val, res |-> "Ok"] ELSE [c |-> <<>>, res |-> "Err"]

\* Deserialize for heapless::String<N>: push_str of the text read, its
\* failure an invalid-length error.
HStr_deserialize(N, text) ==
    LET p == ParseStr(text)
        r == HStr_push_str(HVec_new(N), p.val)
    IN  IF p.ok /\ r.res = "Ok" THEN [c |-> r.c, res |-> "Ok"]
        ELSE [c |-> HVec_new(N), res |-> "Err"]

\* --------------------------------------------- vec.rs: CollectionFamily
\* <VecFamily as CollectionFamily>::new::<T, N>: N is not used.
VecFamily_new(N) == Vec_new

\* Mutant of HVecFamily_new: one slot too many.
HVecFamily_new_wide(N) == HVec_new(N + 1)

\* <HVecFamily as CollectionFamily>::new::<T, N>
HVecFamily_new(N) == HVec_new(N)

\* CollectionFamily::new, dispatched on the family selector.
Family_new(f, N) == IF f = "VecFamily" THEN VecFamily_new(N) ELSE HVecFamily_new(N)

\* CollectionMut::push on a Member of family f.
Member_push(f, c, value) == IF f = "VecFamily" THEN Vec_push(c, value) ELSE HVec_push(c, value)

\* The number of elements a Member of family f holds.
Member_count(f, c) == IF f = "VecFamily" THEN Len(Vec_iterate(c)) ELSE Len(HVec_iterate(c))

\* tests: the capacities in the types of Inner2 and Outer2, and of HS32.
DataN == 2
InnersN == 2
SimpleN == 1
HS32 == 32

\* tests::read_write: "test moon please ignore", "RW" and "RWRWRWRWRWRWRWRW".
Moon ==
    <<116, 101, 115, 116, 32, 109, 111, 111, 110, 32, 112, 108, 101, 97, 115, 101, 32,
      105, 103, 110, 111, 114, 101>>
RW == <<82, 87>>
RW16 == RW \o RW \o RW \o RW \o RW \o RW \o RW \o RW

\* ------------------------------------------------------------------ state
\* kind:     what the run exercises: "Vec" (Vec<u8> and heapless::Vec<u8, N>),
\*           "String" (String and heapless::String<N>), "ReadWrite" (the
\*           strings of tests::read_write) or "Family" (the Outer2 of
\*           tests::nested and tests::heapless)
\* std:      the growable container (the tests' `std`)
\* heapless: the bounded container (the tests' `heapless`)
\* factory:  the family selector Outer2 is built from
\* outer:    the Outer2: its members `simple` and `inners`, each a record of
\*           the container c, the N of its Member<T, N> type and the number
\*           of push calls made on it since CollectionFamily::new() (counted
\*           up to N + 1, then Uninit); the elements of `inners` are Inner2
\*           records whose `data` is such a member
\* last:     the last call: its name, receiver, arguments, outcome and
\*           returned value
VARIABLES kind, std, heapless, factory, outer, last

vars == <<kind, std, heapless, factory, outer, last>>

Capacities == 0..MaxN

\* The texts push_str, from and from_slice are called with.
StrData == {Utf8Str(cs) : cs \in SeqsUpTo(Chars, MaxLen - 1)}
VecData == SeqsUpTo(Elem, MaxLen)
RWData == {RW, RW16}

\* How far the model lets a growable container grow.
Limit == IF kind = "ReadWrite" THEN Len(Moon) + Len(RW16) + MaxLen ELSE MaxLen

Call(op, on, arg, res, ret) ==
    [op |-> op, on |-> on, arg |-> arg, res |-> res, ret |-> ret]

Running == last.res # "Panic"

\* A member made by CollectionFamily::new::<T, N>().
NewMember(f, N) == [c |-> Family_new(f, N), N |-> N, calls |-> 0]

\* Outer2::new(f)
Outer2_new(f) == [simple |-> NewMember(f, SimpleN), inners |-> NewMember(f, InnersN)]

NoOuter == [simple |-> NewMember("VecFamily", 0), inners |-> NewMember("VecFamily", 0)]

InitContainers ==
    /\ kind \in {"Vec", "String"}
    /\ std = <<>>
    /\ \E N \in Capacities : heapless = HVec_new(N)
    /\ factory = "VecFamily"
    /\ outer = NoOuter
    /\ last = Call("new", "both", <<>>, "Ok", <<>>)

\* tests::read_write: `std` and `heapless` hold "test moon please ignore".
InitReadWrite ==
    /\ kind = "ReadWrite"
    /\ std = Moon
    /\ heapless = HStr_from(HS32, Moon).c
    /\ factory = "VecFamily"
    /\ outer = NoOuter
    /\ last = Call("from", "heapless", <<Moon>>, HStr_from(HS32, Moon).res, <<>>)

\* tests::nested and tests::heapless: Outer2::new(factory).
InitFamily ==
    /\ kind = "Family"
    /\ std = <<>>
    /\ heapless = HVec_new(0)
    /\ factory \in {"VecFamily", "HVecFamily"}
    /\ outer = Outer2_new(factory)
    /\ last = Call("Outer2::new", "outer", <<>>, "Ok", <<>>)

Init == InitContainers \/ InitReadWrite \/ InitFamily

\* A call on `std` with result r = [c, res, ret].
OnStd(op, arg, r) ==
    /\ Running
    /\ Len(r.c) <= Limit
    /\ std' = r.c
    /\ last' = Call(op, "std", arg, r.res, r.ret)
    /\ UNCHANGED <<kind, heapless, factory, outer>>

\* A call on `heapless` with result r = [c, res, ret].
OnHeapless(op, arg, r) ==
    /\ Running
    /\ heapless' = r.c
    /\ last' = Call(op, "heapless", arg, r.res, r.ret)
    /\ UNCHANGED <<kind, std, factory, outer>>

\* A call that changes no container.
Query(op, on, arg, res, ret) ==
    /\ Running
    /\ last' = Call(op, on, arg, res, ret)
    /\ UNCHANGED <<kind, std, heapless, factory, outer>>

\* ------------------------------------------------------- actions: vec.rs
StdPush(value) ==
    /\ kind = "Vec"
    /\ OnStd("push", <<value>>, Vec_push(std, value))

HeaplessPush(value) ==
    /\ kind = "Vec"
    /\ OnHeapless("push", <<value>>, HVec_push(heapless, value))

StdInsert(index, element) ==
    /\ kind = "Vec"
    /\ OnStd("insert", <<index, element>>, Vec_insert(std, index, element))

HeaplessInsert(index, element) ==
    /\ kind = "Vec"
    /\ OnHeapless("insert", <<index, element>>, HVec_insert(heapless, index, element))

StdRemove(index) ==
    /\ kind = "Vec"
    /\ OnStd("remove", <<index>>, Vec_remove(std, index))

HeaplessRemove(index) ==
    /\ kind = "Vec"
    /\ OnHeapless("remove", <<index>>, HVec_remove(heapless, index))

StdClear ==
    /\ kind = "Vec"
    /\ OnStd("clear", <<>>, Vec_clear(std))

HeaplessClear ==
    /\ kind = "Vec"
    /\ OnHeapless("clear", <<>>, HVec_clear(heapless))

\* vec![..]
StdFromSlice(data) ==
    /\ kind = "Vec"
    /\ OnStd("from_slice", <<data>>, [c |-> data, res |-> "Ok", ret |-> <<>>])

\* HV32::from_slice(..).unwrap()
HeaplessFromSlice(data) ==
    /\ kind = "Vec"
    /\ OnHeapless("from_slice", <<data>>, HVec_from_slice(HVec_capacity(heapless), data))

StdLen ==
    /\ kind = "Vec"
    /\ Query("len", "std", <<>>, "Ok", <<Vec_len(std)>>)

HeaplessLen ==
    /\ kind = "Vec"
    /\ Query("len", "heapless", <<>>, "Ok", <<HVec_len(heapless)>>)

StdIsEmpty ==
    /\ kind = "Vec"
    /\ Query("is_empty", "std", <<>>, "Ok", <<Vec_is_empty(std)>>)

HeaplessIsEmpty ==
    /\ kind = "Vec"
    /\ Query("is_empty", "heapless", <<>>, "Ok", <<HVec_is_empty(heapless)>>)

StdIterate ==
    /\ kind = "Vec"
    /\ Query("iterate", "std", <<>>, "Ok", <<Vec_iterate(std)>>)

HeaplessIterate ==
    /\ kind = "Vec"
    /\ Query("iterate", "heapless", <<>>, "Ok", <<HVec_iterate(heapless)>>)

UnitIterate ==
    /\ kind = "Vec"
    /\ Query("iterate", "unit", <<>>, "Ok", <<Unit_iterate>>)

UnitLen ==
    /\ kind = "Vec"
    /\ Query("len", "unit", <<>>, Unit_len.res, Unit_len.ret)

UnitIsEmpty ==
    /\ kind = "Vec"
    /\ Query("is_empty", "unit", <<>>, Unit_is_empty.res, Unit_is_empty.ret)

\* tests::ser_de: both containers are serialized, and each text is read back
\* into the other backing (a bounded one of capacity N); the test unwraps
\* every result.
SerDe(N) ==
    LET ser_std == Vec_serialize(std)
        ser_heapless == HVec_serialize(heapless)
        de_std == Vec_deserialize(ser_heapless)
        de_heapless == HVec_deserialize(N, ser_std)
    IN  /\ kind = "Vec"
        /\ Query("ser_de", "both", <<N>>,
                 IF de_std.res = "Ok" /\ de_heapless.res = "Ok" THEN "Ok" ELSE "Panic",
                 [ser_std |-> ser_std, ser_heapless |-> ser_heapless,
                  de_std |-> de_std, de_heapless |-> de_heapless])

NextVec ==
    \/ \E value \in Elem : StdPush(value)
    \/ \E value \in Elem : HeaplessPush(value)
    \/ \E index \in 0..MaxLen, element \in Elem : StdInsert(index, element)
    \/ \E index \in 0..MaxLen, element \in Elem : HeaplessInsert(index, element)
    \/ \E index \in 0..MaxLen : StdRemove(index)
    \/ \E index \in 0..MaxLen : HeaplessRemove(index)
    \/ StdClear
    \/ HeaplessClear
    \/ \E data \in VecData : StdFromSlice(data)
    \/ \E data \in VecData : HeaplessFromSlice(data)
    \/ StdLen
    \/ HeaplessLen
    \/ StdIsEmpty
    \/ HeaplessIsEmpty
    \/ StdIterate
    \/ HeaplessIterate
    \/ UnitIterate
    \/ UnitLen
    \/ UnitIsEmpty
    \/ \E N \in Capacities : SerDe(N)

\* ---------------------------------------------------- actions: string.rs
StdStrPush(ch) ==
    /\ kind = "String"
    /\ OnStd("push", <<ch>>, Str_push(std, ch))

HeaplessStrPush(ch) ==
    /\ kind = "String"
    /\ OnHeapless("push", <<ch>>, HStr_push(heapless, ch))

StdPushStr(string) ==
    /\ \/ kind = "String" /\ string \in StrData
       \/ kind = "ReadWrite" /\ string \in RWData
    /\ OnStd("push_str", <<string>>, Str_push_str(std, string))

HeaplessPushStr(string) ==
    /\ \/ kind = "String" /\ string \in StrData
       \/ kind = "ReadWrite" /\ string \in RWData
    /\ OnHeapless("push_str", <<string>>, HStr_push_str(heapless, string))

StdTruncate(new_len) ==
    /\ kind = "String"
    /\ OnStd("truncate", <<new_len>>, Str_truncate(std, new_len))

HeaplessTruncate(new_len) ==
    /\ kind = "String"
    /\ OnHeapless("truncate", <<new_len>>, HStr_truncate(heapless, new_len))

StdStrClear ==
    /\ kind \in {"String", "ReadWrite"}
    /\ OnStd("clear", <<>>, Str_clear(std))

HeaplessStrClear ==
    /\ kind \in {"String", "ReadWrite"}
    /\ OnHeapless("clear", <<>>, HStr_clear(heapless))

\* "...".to_string()
StdFrom(string) ==
    /\ kind = "String"
    /\ OnStd("from", <<string>>, [c |-> string, res |-> "Ok", ret |-> <<>>])

\* let h: HS32 = "...".into()
HeaplessFrom(string) ==
    /\ kind = "String"
    /\ OnHeapless("from", <<string>>, HStr_from(HStr_capacity(heapless), string))

StdAsStr ==
    /\ kind \in {"String", "ReadWrite"}
    /\ Query("as_str", "std", <<>>, "Ok", <<Str_as_str(std)>>)

HeaplessAsStr ==
    /\ kind \in {"String", "ReadWrite"}
    /\ Query("as_str", "heapless", <<>>, "Ok", <<HStr_as_str(heapless)>>)

StdAsMutStr ==
    /\ kind = "String"
    /\ Query("as_mut_str", "std", <<>>, "Ok", <<Str_as_mut_str(std)>>)

HeaplessAsMutStr ==
    /\ kind = "String"
    /\ Query("as_mut_str", "heapless", <<>>, "Ok", <<HStr_as_mut_str(heapless)>>)

HeaplessCapacity ==
    /\ kind \in {"String", "ReadWrite"}
    /\ Query("capacity", "heapless", <<>>, "Ok", <<HStr_capacity(heapless)>>)

\* tests::read: both strings are serialized, and each text is read back into
\* the other backing (a bounded one of capacity N); the test unwraps every
\* result.
StrSerDe(N) ==
    LET ser_std == Str_serialize(std)
        ser_heapless == HStr_serialize(heapless)
        de_std == Str_deserialize(ser_heapless)
        de_heapless == HStr_deserialize(N, ser_std)
    IN  /\ kind = "String"
        /\ Query("ser_de", "both", <<N>>,
                 IF de_std.res = "Ok" /\ de_heapless.res = "Ok" THEN "Ok" ELSE "Panic",
                 [ser_std |-> ser_std, ser_heapless |-> ser_heapless,
                  de_std |-> de_std, de_heapless |-> de_heapless])

NextStr ==
    \/ \E ch \in Chars : StdStrPush(ch)
    \/ \E ch \in Chars : HeaplessStrPush(ch)
    \/ \E string \in StrData \cup RWData : StdPushStr(string)
    \/ \E string \in StrData \cup RWData : HeaplessPushStr(string)
    \/ \E new_len \in 0..(MaxLen + 1) : StdTruncate(new_len)
    \/ \E new_len \in 0..(MaxLen + 1) : HeaplessTruncate(new_len)
    \/ StdStrClear
    \/ HeaplessStrClear
    \/ \E string \in StrData : StdFrom(string)
    \/ \E string \in StrData : HeaplessFrom(string)
    \/ StdAsStr
    \/ HeaplessAsStr
    \/ StdAsMutStr
    \/ HeaplessAsMutStr
    \/ HeaplessCapacity
    \/ \E N \in Capacities : StrSerDe(N)

\* ------------------------------------------- actions: tests' Outer2 family
\* One more push call on a member, counted up to N + 1 calls.
Pushed(m, r) ==
    [c |-> r.c, N |-> m.N,
     calls |-> IF m.calls = Uninit \/ m.calls > m.N THEN Uninit ELSE m.calls + 1]

\* outer.simple.push(value)
PushSimple(value) ==
    LET m == outer.simple
        r == Member_push(factory, m.c, value)
    IN  /\ kind = "Family"
        /\ Running
        /\ Member_count(factory, r.c) <= MaxLen
        /\ outer' = [outer EXCEPT !.simple = Pushed(m, r)]
        /\ last' = Call("push", "simple", <<value>>, r.res, r.ret)
        /\ UNCHANGED <<kind, std, heapless, factory>>

\* outer.inners.push(Inner2 { data: factory.new::<_, N>() }); N is DataN by
\* the type of Inner2 unless the family gives every N the same type.
PushInner(N) ==
    LET m == outer.inners
        inner == [data |-> NewMember(factory, N)]
        r == Member_push(factory, m.c, inner)
    IN  /\ kind = "Family"
        /\ Running
        /\ factory = "HVecFamily" => N = DataN
        /\ Member_count(factory, r.c) <= MaxLen
        /\ outer' = [outer EXCEPT !.inners = Pushed(m, r)]
        /\ last' = Call("push", "inners", <<N>>, r.res, r.ret)
        /\ UNCHANGED <<kind, std, heapless, factory>>

\* for inner in outer.inners.iterate_mut(): the index-th inner.data.push(value)
PushData(index, value) ==
    LET m == outer.inners
        count == Member_count(factory, m.c)
        d == (IF factory = "VecFamily" THEN m.c[index] ELSE m.c.buffer[index]).data
        r == Member_push(factory, d.c, value)
        inner == [data |-> Pushed(d, r)]
    IN  /\ kind = "Family"
        /\ Running
        /\ index <= count
        /\ Member_count(factory, r.c) <= MaxLen
        /\ outer' = [outer EXCEPT !.inners.c =
                        IF factory = "VecFamily" THEN [m.c EXCEPT ![index] = inner]
                        ELSE [m.c EXCEPT !.buffer[index] = inner]]
        /\ last' = Call("push", "data", <<index, value>>, r.res, r.ret)
        /\ UNCHANGED <<kind, std, heapless, factory>>

NextFamily ==
    \/ \E value \in {1} : PushSimple(value)
    \/ \E N \in {0, DataN} : PushInner(N)
    \/ \E index \in 1..MaxLen, value \in {1} : PushData(index, value)

Next == NextVec \/ NextStr \/ NextFamily

Spec == Init /\ [][Next]_vars

\* ----------------------------------------------------------------- claims
Cap == HVec_capacity(heapless)

\* The call added to `heapless`: a push or a push_str.
Appends(call) == call.on = "heapless" /\ call.op \in {"push", "push_str"}

\* The number of units the call asks to append.
Added(call) ==
    IF call.op = "push_str" THEN Len(call.arg[1])
    ELSE IF kind = "Vec" THEN 1 ELSE Utf8Len(call.arg[1])

\* C1: the length of a bounded container never exceeds its capacity N, and a
\* push or push_str that would take the length above N returns Err and
\* leaves the length as it was.
C1_CapacityInvariant ==
    /\ heapless.len <= Cap
    /\ [][/\ heapless'.len <= HVec_capacity(heapless')
          /\ (Appends(last') /\ heapless.len + Added(last') > Cap)
                => (last'.res = "Err" /\ heapless'.len = heapless.len)]_vars

\* A Vec push was rejected on a full container of capacity at least 1.
C1_Witness ==
    /\ kind = "Vec" /\ last.on = "heapless" /\ last.op = "push"
    /\ last.res = "Err" /\ heapless.len = Cap /\ Cap > 0

\* C2: push_str on a bounded string succeeds iff length + Len(data) <= N and
\* then appends all of data in order; otherwise it returns Err and the
\* string is exactly what it was.
C2_PushStrAllOrNothing ==
    [][(last'.on = "heapless" /\ last'.op = "push_str") =>
          IF heapless.len + Len(last'.arg[1]) <= Cap
          THEN /\ last'.res = "Ok"
               /\ HStr_as_str(heapless') = HStr_as_str(heapless) \o last'.arg[1]
               /\ HStr_capacity(heapless') = Cap
          ELSE /\ last'.res = "Err"
               /\ heapless' = heapless]_vars

\* A push_str was rejected although the string had room for a prefix of it.
C2_Witness ==
    /\ last.on = "heapless" /\ last.op = "push_str" /\ last.res = "Err"
    /\ heapless.len > 0 /\ heapless.len < Cap

\* C3 as claimed: push on a bounded container, vector or string, succeeds iff
\* length < N, and a failed push returns the rejected element.
C3_Original ==
    [][(last'.on = "heapless" /\ last'.op = "push") =>
          /\ last'.res = "Ok" <=> heapless.len < Cap
          /\ last'.res = "Err" => last'.ret = <<last'.arg[1]>>]_vars

\* C3 amended: push on heapless::Vec succeeds iff length < N and a failed push
\* returns the rejected element; push on heapless::String succeeds iff
\* length + len_utf8(ch) <= N and a failed push returns (), no element.  A
\* failed push leaves the container as it was.
C3_PushOutcome ==
    [][(last'.on = "heapless" /\ last'.op = "push") =>
          /\ last'.res \in {"Ok", "Err"}
          /\ last'.res = "Err" => heapless' = heapless
          /\ kind = "Vec" =>
                /\ last'.res = "Ok" <=> heapless.len < Cap
                /\ last'.res = "Err" => last'.ret = <<last'.arg[1]>>
          /\ kind = "String" =>
                /\ last'.res = "Ok" <=> heapless.len + Utf8Len(last'.arg[1]) <= Cap
                /\ last'.ret = <<>>]_vars

\* A two-byte char was rejected by a string with one free byte.
C3_Witness ==
    /\ kind = "String" /\ last.on = "heapless" /\ last.op = "push"
    /\ last.res = "Err" /\ Utf8Len(last.arg[1]) = 2 /\ heapless.len = Cap - 1

\* The two containers hold the same logical contents.
SameContents ==
    IF kind = "Vec" THEN Vec_iterate(std) = HVec_iterate(heapless)
    ELSE Str_as_str(std) = HStr_as_str(heapless)

C5_CrossBackingRoundTrip ==
    last.op = "ser_de" =>
        /\ last.ret.de_std.res = "Ok"
        /\ last.ret.de_std.c = HVec_as_slice(heapless)
        /\ last.arg[1] >= Len(std) =>
              /\ last.ret.de_heapless.res = "Ok"
              /\ HVec_as_slice(last.ret.de_heapless.c) = std
              /\ last.res = "Ok"

\* A string holding a '"' was read back into a bounded string of exactly its
\* length.
C5_Witness ==
    /\ kind = "String" /\ last.op = "ser_de" /\ last.res = "Ok"
    /\ Len(std) >= 2 /\ last.arg[1] = Len(std)
    /\ \E i \in 1..Len(std) : std[i] = 34

\* C6 as claimed: the capacity-32 string holding "test moon please ignore"
\* accepts push_str("RW") and is then 26 long; push_str of the 16-character
\* string then fails, 26 + 16 = 42 > 32, and the length stays 26.
C6_Original ==
    [][(kind = "ReadWrite" /\ last'.on = "heapless" /\ last'.op = "push_str") =>
          /\ (HStr_as_str(heapless) = Moon /\ last'.arg[1] = RW)
                => (last'.res = "Ok" /\ heapless'.len = 26)
          /\ (HStr_as_str(heapless) = Moon \o RW /\ last'.arg[1] = RW16)
                => (last'.res = "Err" /\ heapless.len + Len(RW16) = 42
                    /\ heapless'.len = 26)]_vars

\* C6 amended: "test moon please ignore" is 23 long, so the string is 25 long
\* after push_str("RW"); push_str of the 16-character string then fails,
\* 25 + 16 = 41 > 32, and the length stays 25.
C6_WorkedExample ==
    [][(kind = "ReadWrite" /\ last'.on = "heapless" /\ last'.op = "push_str") =>
          /\ (HStr_as_str(heapless) = Moon /\ last'.arg[1] = RW)
                => (last'.res = "Ok" /\ heapless'.len = 25)
          /\ (HStr_as_str(heapless) = Moon \o RW /\ last'.arg[1] = RW16)
                => (last'.res = "Err" /\ heapless.len + Len(RW16) = 41
                    /\ 41 > HStr_capacity(heapless) /\ heapless'.len = 25)]_vars

\* The 16-character push_str was rejected after the 2-character one.
C6_Witness ==
    /\ kind = "ReadWrite" /\ HStr_capacity(heapless) = HS32
    /\ HStr_as_str(heapless) = Moon \o RW
    /\ last.on = "heapless" /\ last.op = "push_str" /\ last.arg[1] = RW16
    /\ last.res = "Err"

\* The index-th Inner2 in `inners`.
InnerAt(index) ==
    IF factory = "VecFamily" THEN Vec_iterate(outer.inners.c)[index]
    ELSE HVec_iterate(outer.inners.c)[index]

\* The `data` members of the Inner2 records in `inners`.
InnerData == {InnerAt(i).data : i \in 1..Member_count(factory, outer.inners.c)}

\* The member the last push was made on.
Pushee ==
    IF last.on = "simple" THEN outer.simple
    ELSE IF last.on = "inners" THEN outer.inners
    ELSE InnerAt(last.arg[1]).data

\* Of the push calls counted on member m, a bounded member took the first N
\* and a growable member took all.
TookPushes(m) ==
    m.calls # Uninit =>
        Member_count(factory, m.c) =
            IF factory = "VecFamily" \/ m.calls <= m.N THEN m.calls ELSE m.N

\* C7: CollectionFamily::new returns an empty container; a member made by
\* HVecFamily accepts its first N pushes and rejects push N + 1, whatever the
\* other members hold; a member made by VecFamily accepts every push,
\* whatever its N.
C7_FamilyCapacity ==
    kind = "Family" =>
        /\ last.op = "Outer2::new" =>
              /\ Member_count(factory, outer.simple.c) = 0
              /\ Member_count(factory, outer.inners.c) = 0
        /\ (last.op = "push" /\ last.on = "inners" /\ last.res = "Ok") =>
              Member_count(factory, InnerAt(Member_count(factory, outer.inners.c)).data.c) = 0
        /\ TookPushes(outer.simple)
        /\ TookPushes(outer.inners)
        /\ \A d \in InnerData : TookPushes(d)
        /\ (last.op = "push" /\ Pushee.calls # Uninit) =>
              (last.res = "Ok" <=> (factory = "VecFamily" \/ Pushee.calls <= Pushee.N))

\* Under HVecFamily push number N + 1 on `inners` was rejected while an
\* Inner2's data holds fewer elements than its own N.
C7_Witness ==
    /\ kind = "Family" /\ factory = "HVecFamily"
    /\ last.op = "push" /\ last.on = "inners" /\ last.res = "Err"
    /\ outer.inners.calls = InnersN + 1
    /\ \E d \in InnerData : d.calls = 1

\* C8: insert and remove on heapless::Vec abort without changing the
\* container, len and is_empty on () abort, iterate on () yields nothing, and
\* nothing runs after an abort.
C8_ContractViolationsAbort ==
    [][/\ last.res # "Panic"
       /\ (last'.on = "heapless" /\ last'.op \in {"insert", "remove"})
             => (last'.res = "Panic" /\ heapless' = heapless)
       /\ (last'.on = "unit" /\ last'.op \in {"len", "is_empty"})
             => last'.res = "Panic"
       /\ (last'.on = "unit" /\ last'.op = "iterate")
             => (last'.res = "Ok" /\ last'.ret = <<(<<>>)>>)]_vars

\* insert aborted on a bounded vector that had room for the element.
C8_Witness ==
    /\ last.on = "heapless" /\ last.op = "insert" /\ last.res = "Panic"
    /\ heapless.len > 0 /\ heapless.len < Cap /\ last.arg[1] <= heapless.len

\* The text of whichever string the call was made on.
TextOf(on, s, h) == IF on = "std" THEN Str_as_str(s) ELSE HStr_as_str(h)

\* C9 as claimed: truncate(new_len) succeeds for every new_len and every
\* content: the first new_len units are kept when new_len < length, nothing
\* changes otherwise, and a bounded string's capacity is unchanged.
C9_Original ==
    [][last'.op = "truncate" =>
          LET before == TextOf(last'.on, std, heapless)
              after == TextOf(last'.on, std', heapless')
              new_len == last'.arg[1]
          IN  /\ last'.res = "Ok"
              /\ new_len < Len(before) => after = SubSeq(before, 1, new_len)
              /\ new_len >= Len(before) => after = before
              /\ HStr_capacity(heapless') = Cap]_vars

\* C9 amended: truncate(new_len) succeeds when new_len >= length or new_len
\* is a char boundary of the string, with the result claimed; when
\* new_len < length falls inside a multi-byte character it panics and the
\* string is unchanged.  A bounded string's capacity is unchanged.
C9_Truncate ==
    [][last'.op = "truncate" =>
          LET before == TextOf(last'.on, std, heapless)
              after == TextOf(last'.on, std', heapless')
              new_len == last'.arg[1]
          IN  /\ last'.res = "Ok" <=>
                    (new_len >= Len(before) \/ IsCharBoundary(before, new_len))
              /\ last'.res = "Panic" => after = before
              /\ (last'.res = "Ok" /\ new_len < Len(before))
                    => after = SubSeq(before, 1, new_len)
              /\ new_len >= Len(before) => after = before
              /\ HStr_capacity(heapless') = Cap]_vars

\* A truncate inside the two-byte character of a bounded string panicked.
C9_Witness ==
    /\ last.op = "truncate" /\ last.on = "heapless" /\ last.res = "Panic"
    /\ last.arg[1] < heapless.len

\* C10: len() is the number of elements iterate() yields, len() = 0 exactly
\* when is_empty(), and both backings report the same len() for the same
\* contents.
C10_LenMatchesIterate ==
    /\ (last.op = "len" /\ last.on = "std") => last.ret[1] = Len(Vec_iterate(std))
    /\ (last.op = "len" /\ last.on = "heapless") =>
          /\ last.ret[1] = Len(HVec_iterate(heapless))
          /\ last.ret[1] = 0 <=> HVec_is_empty(heapless)
          /\ SameContents => last.ret[1] = Vec_len(std)

====
